---------------------------- MODULE Spec2Model ----------------------------
(***************************************************************************)
(* Model of the document-processor frontend (src/frontend):                *)
(*   - services/api_client.py      ApiClient (upload / result / download)  *)
(*   - app.py                      main(): page render, result branching   *)
(*   - components/results_display  display_results, display_error          *)
(*                                                                         *)
(* Python strings are sequences of one-character strings, so that the      *)
(* `in` substring tests of display_error are computed character by         *)
(* character (case-sensitive, matches may straddle word boundaries).       *)
(* Floats in [0,1] are integers in hundredths (0.8 is 80).                 *)
(***************************************************************************)
EXTENDS Integers, Sequences, FiniteSets, TLC

VARIABLES
    result,         \* app.py:111  the value held in st.session_state['last_result']
    view,           \* what main rendered for it (lines 122-134)
    exchange,       \* the ApiClient method called and what the transport did
    returned,       \* what that call gave its caller
    backend,        \* what the backend answers to the health probe and the listing
    pc,             \* where the script run of main stands
    banner,         \* the "System Status" line of the sidebar
    uncaught,       \* the exception that ended the script run, if any
    session_state,  \* st.session_state: whether it has 'last_result', and its value
    offered,        \* the buttons the script run has put on the page
    document,       \* the result handed to display_results
    entity_groups,  \* results_display.py:32  the dict built by the grouping loop
    entity_lines,   \* the line written for each entity of each group (lines 42-45)
    tables_shown    \* what each table's expander shows (lines 61-89)

vars ==
    <<result, view, exchange, returned, backend, pc, banner, uncaught,
      session_state, offered,
      document, entity_groups, entity_lines, tables_shown>>

classifyVars == <<result, view>>

transportVars == <<exchange, returned>>

renderVars == <<backend, pc, banner, uncaught, session_state, offered>>

normalizeVars == <<document, entity_groups, entity_lines, tables_shown>>

---------------------------------------------------------------------------
(* String literals of the source.                                          *)

S_API_configuration ==
    <<"A","P","I"," ","c","o","n","f","i","g","u","r","a","t","i","o","n">>
S_categorize ==
    <<"c","a","t","e","g","o","r","i","z","e">>
S_extract ==
    <<"e","x","t","r","a","c","t">>
S_timeout ==
    <<"t","i","m","e","o","u","t">>
S_busy ==
    <<"b","u","s","y">>
S_wait ==
    <<"w","a","i","t">>
S_Unknown_error_occurred ==
    <<"U","n","k","n","o","w","n"," ","e","r","r","o","r"," ","o","c","c","u","r","r","e","d">>
S_Not_found ==
    <<"N","o","t"," ","f","o","u","n","d">>
S_Upload_failed ==
    <<"U","p","l","o","a","d"," ","f","a","i","l","e","d",":"," ">>
S_Unable_to_categorize ==
    <<"U","n","a","b","l","e"," ","t","o"," ","c","a","t","e","g","o","r","i","z","e"," ",
      "t","h","i","s"," ","d","o","c","u","m","e","n","t","."," ","T","h","e"," ","A","I"," ",
      "s","e","r","v","i","c","e"," ","m","a","y"," ","b","e"," ","h","a","v","i","n","g"," ",
      "i","s","s","u","e","s",".">>

(* Text fragments the bounded messages are assembled from: the patterns,   *)
(* a case variant, two halves of a pattern, and filler.                    *)
S_Timeout ==
    <<"T","i","m","e","o","u","t">>
S_time ==
    <<"t","i","m","e">>
S_out ==
    <<"o","u","t">>
S_filler ==
    <<" ","x"," ">>

\* A file id and the texts of the transport's exceptions.
S_file_id ==
    <<"f","1">>
S_Connection_failed ==
    <<"C","o","n","n","e","c","t","i","o","n"," ","f","a","i","l","e","d">>
S_Read_timed_out ==
    <<"R","e","a","d"," ","t","i","m","e","d"," ","o","u","t","."," ",
      "(","r","e","a","d"," ","t","i","m","e","o","u","t","=","6","0",")">>
S_Connect_timed_out ==
    <<"c","o","n","n","e","c","t"," ","t","i","m","e","o","u","t","=","6","0">>
S_Expecting_value ==
    <<"E","x","p","e","c","t","i","n","g"," ","v","a","l","u","e">>
S_Client_Error ==
    <<" ","C","l","i","e","n","t"," ","E","r","r","o","r">>
S_Server_Error ==
    <<" ","S","e","r","v","e","r"," ","E","r","r","o","r">>

---------------------------------------------------------------------------
(* Python values.                                                          *)

\* `pat in text` for two str operands: substring test, case-sensitive.
Contains(pat, text) ==
    \E i \in 0..(Len(text) - Len(pat)) : SubSeq(text, i + 1, i + Len(pat)) = pat

\* A dict entry read with .get(): has = the key is present; t = the JSON
\* type of the value; s = the text of a str (the single item of a list).
Absent == [has |-> FALSE, t |-> "none", s |-> <<>>]

Str(s) == [has |-> TRUE, t |-> "str", s |-> s]

Null == [has |-> TRUE, t |-> "null", s |-> <<>>]

Num == [has |-> TRUE, t |-> "num", s |-> <<>>]

ListOf(s) == [has |-> TRUE, t |-> "list", s |-> s]

\* The category and confidenceScore entries of a response: a category name
\* and a score in hundredths.
NoCategory == [has |-> FALSE, name |-> ""]

Category(c) == [has |-> TRUE, name |-> c]

NoScore == [has |-> FALSE, v |-> 0]

Score(v) == [has |-> TRUE, v |-> v]

\* dict.get(key, default): the default only when the key is missing.
Get(entry, default) == IF entry.has THEN entry ELSE default

\* Whether `pat in v` raises TypeError: None and numbers are not containers.
InRaises(v) == v.t \in {"none", "null", "num"}

\* `pat in v` where it does not raise: substring of a str, membership in a list.
In(pat, v) ==
    IF v.t = "str" THEN Contains(pat, v.s) ELSE v.t = "list" /\ v.s = pat

\* bool(result.get('error')): missing, false and null are falsy; true and a
\* non-empty string (such as "false") are truthy.
Truthy(e) == e \in {"true", "string"}

---------------------------------------------------------------------------
(* components/results_display.py: display_error.                           *)

IsApiConfigurationMessage(error_message) ==
    In(S_API_configuration, error_message)

\* A slip: only one of the two alternatives of line 106 is tested.
IsAiProcessingMessage_categorize_only(error_message) ==
    In(S_categorize, error_message)

IsAiProcessingMessage(error_message) ==
    In(S_categorize, error_message) \/ In(S_extract, error_message)

\* A slip: the test is made for the capitalised word.
IsTimeoutMessage_capitalised(error_message) ==
    In(S_Timeout, error_message)

IsTimeoutMessage(error_message) ==
    In(S_timeout, error_message)

IsServiceBusyMessage(error_message) ==
    In(S_busy, error_message) \/ In(S_wait, error_message)

\* The troubleshooting branch display_error takes (lines 100-134), or the
\* TypeError its first `in` test raises on a value that is no container.
\* The headline and the "Issue" line (94-97) are written before that.
display_error(error_message) ==
    IF InRaises(error_message)
    THEN [tips |-> "none", raised |-> "TypeError"]
    ELSE IF IsApiConfigurationMessage(error_message)
    THEN [tips |-> "ApiConfiguration", raised |-> "none"]
    ELSE IF IsAiProcessingMessage(error_message)
    THEN [tips |-> "AiProcessing", raised |-> "none"]
    ELSE IF IsTimeoutMessage(error_message)
    THEN [tips |-> "Timeout", raised |-> "none"]
    ELSE IF IsServiceBusyMessage(error_message)
    THEN [tips |-> "ServiceBusy", raised |-> "none"]
    ELSE [tips |-> "Generic", raised |-> "none"]

---------------------------------------------------------------------------
(* app.py: the branch chain of main over the stored result.                *)

\* result.get('error') is truthy (line 123).
HasErrorMarker(r) == Truthy(r.error)

\* A slip: the sentinel is compared with the wrong spelling.
IsProcessing_capitalised(r) ==
    r.category.has /\ r.category.name = "Processing"

\* result.get('category') == 'processing' (line 126).
IsProcessing(r) ==
    r.category.has /\ r.category.name = "processing"

\* A slip: the category is compared with the sidebar's label "Other".
IsFailedCategorization_label(r) ==
    /\ r.category.has /\ r.category.name = "Other"
    /\ (IF r.confidenceScore.has THEN r.confidenceScore.v ELSE 0) = 0

\* result.get('category') == 'other' and
\* result.get('confidenceScore', 0) == 0.0 (line 129).
IsFailedCategorization(r) ==
    /\ r.category.has /\ r.category.name = "other"
    /\ (IF r.confidenceScore.has THEN r.confidenceScore.v ELSE 0) = 0

\* Lines 122-134. Every branch starts with result.get(...), which only a
\* dict has: any other JSON value raises AttributeError at line 123.
main_display(r) ==
    IF r.json # "object"
    THEN [shown |-> "exception", tips |-> "none", raised |-> "AttributeError"]
    ELSE IF HasErrorMarker(r)
    THEN LET d == display_error(Get(r.message, Str(S_Unknown_error_occurred)))
         IN  [shown |-> "error", tips |-> d.tips, raised |-> d.raised]
    ELSE IF IsProcessing(r)
    THEN [shown |-> "pending", tips |-> "none", raised |-> "none"]
    ELSE IF IsFailedCategorization(r)
    THEN LET d == display_error(Str(S_Unable_to_categorize))
         IN  [shown |-> "error", tips |-> d.tips, raised |-> d.raised]
    ELSE [shown |-> "results", tips |-> "none", raised |-> "none"]

---------------------------------------------------------------------------
(* Bounded responses.                                                      *)

\* Most fragments concatenated into one message.
MaxFragments == 2

Fragments ==
    { S_API_configuration, S_categorize, S_extract, S_timeout, S_busy, S_wait,
      S_Timeout, S_time, S_out, S_filler }

RECURSIVE Texts(_)
Texts(n) ==
    IF n = 0 THEN {<<>>}
    ELSE LET shorter == Texts(n - 1)
         IN  shorter \cup {p \o f : p \in shorter, f \in Fragments}

Messages ==
    {Absent, Null, Num, ListOf(S_timeout)} \cup {Str(s) : s \in Texts(MaxFragments)}

Categories ==
    {NoCategory} \cup {Category(c) : c \in {"processing", "Processing", "other", "invoice"}}

Scores == {NoScore, Score(0), Score(50), Score(95)}

\* Bodies carrying an error marker: every message, with and without the
\* "processing" sentinel.
MarkedResponses ==
    [json : {"object"}, error : {"true", "string"}, message : Messages,
     category : {NoCategory, Category("processing")},
     confidenceScore : {NoScore}, fileId : {Null}]

\* Bodies without a truthy marker: every category and score.
UnmarkedResponses ==
    [json : {"object"}, error : {"absent", "false", "null"},
     message : {Absent, Str(S_timeout)},
     category : Categories, confidenceScore : Scores, fileId : {Str(S_file_id)}]

\* JSON bodies that are no object.
NonObjectResponses ==
    [json : {"array", "string", "number", "null"}, error : {"absent"},
     message : {Absent}, category : {NoCategory}, confidenceScore : {NoScore},
     fileId : {Absent}]

Responses == MarkedResponses \cup UnmarkedResponses \cup NonObjectResponses

NoView == [shown |-> "nothing", tips |-> "none", raised |-> "none"]

---------------------------------------------------------------------------
(* services/api_client.py: ApiClient over the requests library.            *)

\* JSON null, which response.json() gives as None.
NoneValue ==
    [json |-> "null", error |-> "absent", message |-> Absent, category |-> NoCategory,
     confidenceScore |-> NoScore, fileId |-> Absent]

\* The exception classes of requests.exceptions the transport can raise,
\* each with its base classes. response.json() raises
\* requests.exceptions.JSONDecodeError, an InvalidJSONError.
BaseClasses(cls) ==
    CASE cls = "ConnectionError"  -> {"RequestException"}
      [] cls = "Timeout"          -> {"RequestException"}
      [] cls = "ConnectTimeout"   -> {"ConnectionError", "Timeout"}
      [] cls = "ReadTimeout"      -> {"Timeout"}
      [] cls = "HTTPError"        -> {"RequestException"}
      [] cls = "InvalidJSONError" -> {"RequestException"}
      [] cls = "JSONDecodeError"  -> {"InvalidJSONError"}
      [] OTHER                    -> {}

RECURSIVE IsInstance(_, _)
IsInstance(cls, base) ==
    cls = base \/ \E b \in BaseClasses(cls) : IsInstance(b, base)

\* except requests.exceptions.RequestException (lines 18, 33, 44).
Caught(cls) == IsInstance(cls, "RequestException")

\* response.raise_for_status(): HTTPError for a 4xx or 5xx status, nothing
\* for any other status.
raise_for_status(status) ==
    IF 400 <= status.code /\ status.code < 500
    THEN [raises |-> TRUE, cls |-> "HTTPError", text |-> status.digits \o S_Client_Error]
    ELSE IF 500 <= status.code /\ status.code < 600
    THEN [raises |-> TRUE, cls |-> "HTTPError", text |-> status.digits \o S_Server_Error]
    ELSE [raises |-> FALSE, cls |-> "none", text |-> <<>>]

\* What the try block raises: the exception of requests.post/get itself,
\* else that of raise_for_status, else (where the body is parsed) that of
\* response.json().
Raised(outcome, parses) ==
    IF outcome.raises THEN [raises |-> TRUE, cls |-> outcome.cls, text |-> outcome.text]
    ELSE LET st == raise_for_status(outcome.status)
         IN  IF st.raises THEN st
             ELSE IF parses /\ ~outcome.body.valid
             THEN [raises |-> TRUE, cls |-> "JSONDecodeError", text |-> S_Expecting_value]
             ELSE [raises |-> FALSE, cls |-> "none", text |-> <<>>]

Returns(v) ==
    [how |-> IF v.json = "null" THEN "None" ELSE "value", value |-> v,
     content |-> "none", exc |-> "none"]

ReturnsNone ==
    [how |-> "None", value |-> NoneValue, content |-> "none", exc |-> "none"]

ReturnsContent(c) ==
    [how |-> "value", value |-> NoneValue, content |-> c, exc |-> "none"]

Propagates(cls) ==
    [how |-> "raised", value |-> NoneValue, content |-> "none", exc |-> cls]

\* Lines 19-23.
UploadError(text) ==
    [json |-> "object", error |-> "true", message |-> Str(S_Upload_failed \o text),
     category |-> NoCategory, confidenceScore |-> NoScore, fileId |-> Null]

\* Lines 9-23.
upload_file(outcome) ==
    LET e == Raised(outcome, TRUE)
    IN  IF ~e.raises THEN Returns(outcome.body.value)
        ELSE IF Caught(e.cls) THEN Returns(UploadError(e.text))
        ELSE Propagates(e.cls)

\* Lines 25-34.
get_file_result(outcome) ==
    LET e == Raised(outcome, TRUE)
    IN  IF ~e.raises THEN Returns(outcome.body.value)
        ELSE IF Caught(e.cls) THEN ReturnsNone
        ELSE Propagates(e.cls)

\* Lines 36-45: response.content is returned unparsed.
download_file(outcome) ==
    LET e == Raised(outcome, FALSE)
    IN  IF ~e.raises THEN ReturnsContent(outcome.body.content)
        ELSE IF Caught(e.cls) THEN ReturnsNone
        ELSE Propagates(e.cls)

---------------------------------------------------------------------------
(* components/results_display.py: display_results.                         *)

\* entity.get('type', 'unknown') (line 34).
entity_type(entity) ==
    IF entity.type.has THEN entity.type.name ELSE "unknown"

\* A slip: the newest entity is put first.
add_to_group_prepend(entity_list, entity) == <<entity>> \o entity_list

\* entity_groups[entity_type].append(entity) (line 37).
add_to_group(entity_list, entity) == Append(entity_list, entity)

\* One pass of the loop body (lines 34-37) over the dict, kept as the
\* sequence of its items in insertion order, which is the order
\* entity_groups.items() iterates in.
group_entity(groups, entity) ==
    LET k == entity_type(entity)
    IN  IF \E i \in 1..Len(groups) : groups[i].key = k
        THEN [i \in 1..Len(groups) |->
                 IF groups[i].key = k
                 THEN [key |-> k, items |-> add_to_group(groups[i].items, entity)]
                 ELSE groups[i]]
        ELSE Append(groups, [key |-> k, items |-> add_to_group(<<>>, entity)])

\* Lines 32-37: the loop over the first n entities.
RECURSIVE group_entities(_, _)
group_entities(entities, n) ==
    IF n = 0 THEN <<>>
    ELSE group_entity(group_entities(entities, n - 1), entities[n])

\* entity.get('confidence', 0) (line 43), in hundredths.
entity_confidence(entity) ==
    IF entity.confidence.has THEN entity.confidence.v ELSE 0

\* A slip: 0.8 itself is shown green.
confidence_color_inclusive(confidence) ==
    IF confidence >= 80 THEN "green"
    ELSE IF confidence > 50 THEN "yellow"
    ELSE "red"

\* Line 44: green above 0.8, else yellow above 0.5, else red.
confidence_color(confidence) ==
    IF confidence > 80 THEN "green"
    ELSE IF confidence > 50 THEN "yellow"
    ELSE "red"

\* Lines 43-45: the line st.write shows for one entity.
entity_line(entity) ==
    LET confidence == entity_confidence(entity)
    IN  [color |-> confidence_color(confidence),
         value |-> entity.value,
         confidence |-> confidence]

\* Lines 39-45: one expander per group, one line per entity of the group.
show_entities(groups) ==
    [i \in 1..Len(groups) |->
        [j \in 1..Len(groups[i].items) |-> entity_line(groups[i].items[j])]]

\* The longest row: pandas pads the shorter rows of a list of lists with
\* missing values up to it.
RECURSIVE Width(_)
Width(rows) ==
    IF rows = <<>> THEN 0
    ELSE LET w == Width(Tail(rows))
         IN  IF Len(Head(rows)) > w THEN Len(Head(rows)) ELSE w

Padded(row, width) ==
    [j \in 1..width |-> IF j <= Len(row) THEN row[j] ELSE "NaN"]

\* pd.DataFrame(rows, columns=headers) (line 70): ValueError when the
\* number of columns passed differs from the width of the data.
DataFrame(rows, headers) ==
    IF Width(rows) # Len(headers)
    THEN [raises |-> TRUE, columns |-> <<>>, data |-> <<>>]
    ELSE [raises |-> FALSE, columns |-> headers,
          data |-> [i \in 1..Len(rows) |-> Padded(rows[i], Len(headers))]]

\* Lines 62-89 for the table at position i (1-based): the expander's title
\* and either the frame with its CSV download, or the raw table under the
\* error of line 85 or under the notice of line 88.
show_table(table, i) ==
    LET table_name == IF table.table_name.has THEN table.table_name.name
                      ELSE <<"Table", i>>
    IN  IF table.headers # <<>> /\ table.rows # <<>>
        THEN LET df == DataFrame(table.rows, table.headers)
             IN  IF df.raises
                 THEN [title |-> table_name, shown |-> "error and json",
                       frame |-> <<>>, json |-> <<table>>, download |-> FALSE]
                 ELSE [title |-> table_name, shown |-> "dataframe",
                       frame |-> df.data, json |-> <<>>, download |-> TRUE]
        ELSE [title |-> table_name, shown |-> "notice and json",
              frame |-> <<>>, json |-> <<table>>, download |-> FALSE]

---------------------------------------------------------------------------
(* Bounded documents.                                                      *)

\* Most entities of a document, and most rows of a table.
MaxEntities == 3

MaxRows == 2

NoType == [has |-> FALSE, name |-> ""]

\* Confidences on both sides of the two thresholds of line 44, on the
\* thresholds, and the missing field.
Confidences == {NoScore, Score(50), Score(51), Score(80), Score(81)}

EntityPool ==
    [type : {NoType} \cup {[has |-> TRUE, name |-> t] : t \in {"amount", "date", "unknown"}},
     value : {"v1", "v2"},
     confidence : {Score(90)}]
    \cup [type : {[has |-> TRUE, name |-> "amount"]},
          value : {"v1"},
          confidence : Confidences]

RECURSIVE EntityLists(_)
EntityLists(n) ==
    IF n = 0 THEN {<<>>}
    ELSE LET shorter == EntityLists(n - 1)
         IN  shorter \cup {Append(l, e) : l \in shorter, e \in EntityPool}

Rows == {<<"1">>, <<"1", "2">>, <<"1", "2", "3">>}

RECURSIVE RowLists(_)
RowLists(n) ==
    IF n = 0 THEN {<<>>}
    ELSE LET shorter == RowLists(n - 1)
         IN  shorter \cup {Append(l, r) : l \in shorter, r \in Rows}

NoName == [has |-> FALSE, name |-> <<>>]

Tables ==
    [table_name : {NoName, [has |-> TRUE, name |-> <<"Line items">>]},
     headers : {<<>>, <<"A">>, <<"A", "B">>},
     rows : RowLists(MaxRows)]

SampleTable ==
    [table_name |-> NoName, headers |-> <<"A", "B">>, rows |-> <<<<"1", "2">>>>]

TableLists ==
    {<<>>} \cup {<<t>> : t \in Tables} \cup {<<SampleTable, t>> : t \in Tables}

\* The entities and tables of a result that main hands to display_results.
Documents ==
    [entities : EntityLists(MaxEntities), tables : {<<>>, <<SampleTable>>}]
    \cup [entities : {<<>>}, tables : TableLists]

NoDocument == [entities |-> <<>>, tables |-> <<>>]

---------------------------------------------------------------------------
(* Bounded transport outcomes.                                             *)

\* Final statuses of an exchange (redirects with a Location are followed by
\* requests; 304 and a 300 without Location are final).
Statuses ==
    { [code |-> 200, digits |-> <<"2","0","0">>],
      [code |-> 201, digits |-> <<"2","0","1">>],
      [code |-> 300, digits |-> <<"3","0","0">>],
      [code |-> 304, digits |-> <<"3","0","4">>],
      [code |-> 400, digits |-> <<"4","0","0">>],
      [code |-> 404, digits |-> <<"4","0","4">>],
      [code |-> 500, digits |-> <<"5","0","0">>],
      [code |-> 503, digits |-> <<"5","0","3">>] }

NoStatus == [code |-> 0, digits |-> <<>>]

SampleDocument ==
    [json |-> "object", error |-> "absent", message |-> Absent,
     category |-> Category("invoice"),
     confidenceScore |-> Score(95), fileId |-> Str(S_file_id)]

\* Response bodies: JSON documents, JSON null, and bodies that do not parse
\* (an HTML page, an empty body).
Bodies ==
    { [valid |-> TRUE, value |-> v, content |-> "data"] :
        v \in { SampleDocument,
                [SampleDocument EXCEPT !.category.name = "processing"],
                UploadError(S_timeout),
                NoneValue,
                [NoneValue EXCEPT !.json = "array"] } }
    \cup { [valid |-> FALSE, value |-> NoneValue, content |-> c] : c \in {"data", "empty"} }

NoBody == [valid |-> FALSE, value |-> NoneValue, content |-> "none"]

TransportErrors ==
    { [cls |-> "ConnectionError", text |-> S_Connection_failed],
      [cls |-> "ConnectTimeout",  text |-> S_Connect_timed_out],
      [cls |-> "ReadTimeout",     text |-> S_Read_timed_out] }

Outcomes ==
    { [raises |-> TRUE, cls |-> e.cls, text |-> e.text, status |-> NoStatus, body |-> NoBody] :
        e \in TransportErrors }
    \cup { [raises |-> FALSE, cls |-> "none", text |-> <<>>, status |-> st, body |-> b] :
             st \in Statuses, b \in Bodies }

NoExchange ==
    [op |-> "none",
     outcome |-> [raises |-> FALSE, cls |-> "none", text |-> <<>>,
                  status |-> NoStatus, body |-> NoBody]]

NothingReturned ==
    [how |-> "nothing", value |-> NoneValue, content |-> "none", exc |-> "none"]

---------------------------------------------------------------------------
(* The client: each call is one blocking exchange, none is retried.        *)

\* The parts of the state a specification leaves alone.
\* A session that holds no 'last_result' (app.py:110).
NoLastResult == [has |-> FALSE, value |-> NoneValue]

RenderIdle ==
    /\ backend = [probe |-> 200, files |-> <<>>]
    /\ pc = "idle"
    /\ banner = "none"
    /\ uncaught = "none"
    /\ session_state = NoLastResult
    /\ offered = {}

TransportIdle ==
    /\ exchange = NoExchange
    /\ returned = NothingReturned

ClassifyIdle ==
    /\ result = NoneValue
    /\ view = NoView

NormalizeIdle ==
    /\ document = NoDocument
    /\ entity_groups = <<>>
    /\ entity_lines = <<>>
    /\ tables_shown = <<>>

InitTransport ==
    /\ TransportIdle
    /\ ClassifyIdle
    /\ RenderIdle
    /\ NormalizeIdle

UploadFile(outcome) ==
    /\ exchange' = [op |-> "upload_file", outcome |-> outcome]
    /\ returned' = upload_file(outcome)
    /\ UNCHANGED <<classifyVars, renderVars, normalizeVars>>

GetFileResult(outcome) ==
    /\ exchange' = [op |-> "get_file_result", outcome |-> outcome]
    /\ returned' = get_file_result(outcome)
    /\ UNCHANGED <<classifyVars, renderVars, normalizeVars>>

DownloadFile(outcome) ==
    /\ exchange' = [op |-> "download_file", outcome |-> outcome]
    /\ returned' = download_file(outcome)
    /\ UNCHANGED <<classifyVars, renderVars, normalizeVars>>

NextTransport ==
    \E outcome \in Outcomes :
        \/ UploadFile(outcome)
        \/ GetFileResult(outcome)
        \/ DownloadFile(outcome)

SpecTransport == InitTransport /\ [][NextTransport]_vars

---------------------------------------------------------------------------
(* app.py: the script run of main up to the "Recent Files" sidebar.        *)

\* The attributes class ApiClient defines (api_client.py:5-45), besides
\* base_url.
ApiClientMethods == {"__init__", "upload_file", "get_file_result", "download_file"}

\* api_client.<name>(...): AttributeError when the class has no such method.
HasMethod(name) == name \in ApiClientMethods

\* Most file summaries in the backend's listing.
MaxFiles == 2

FileSummaries ==
    [id : {"f1", "f2"}, status : {"processing", "completed"}]

RECURSIVE Listings(_)
Listings(n) ==
    IF n = 0 THEN {<<>>}
    ELSE LET shorter == Listings(n - 1)
         IN  shorter \cup {Append(l, f) : l \in shorter, f \in FileSummaries}

\* What GET /test gives: a status code, or 0 for a request that raises.
Probes == {0, 200, 404, 500}

Backends == [probe : Probes, files : Listings(MaxFiles)]

\* Lines 56-65: any exception of the probe is swallowed by the bare except.
HealthBanner(probe) ==
    IF probe = 0 THEN "Backend Offline"
    ELSE IF probe \in {200, 404} THEN "Backend Connected"
    ELSE "Backend Issues"

\* The buttons a script run renders once it is past line 73: "Load
\* Selected" under a non-empty listing (lines 74-78), "Process Document"
\* under the uploader (lines 87-93), "Clear Results" for a stored result
\* (lines 110-118) and "Try Again" under display_error (lines 123-131 and
\* results_display.py:137).
buttons(files, session) ==
    (IF files # <<>> THEN {"Load Selected"} ELSE {})
    \cup {"Process Document"}
    \cup (IF session.has THEN {"Clear Results"} ELSE {})
    \cup (IF session.has /\ main_display(session.value).raised = "none"
              /\ main_display(session.value).shown = "error"
          THEN {"Try Again"} ELSE {})

\* A new browser session: st.session_state is empty and the page is blank.
InitRender ==
    /\ backend \in Backends
    /\ pc = "start"
    /\ banner = "none"
    /\ uncaught = "none"
    /\ session_state = NoLastResult
    /\ offered = {}
    /\ ClassifyIdle
    /\ TransportIdle
    /\ NormalizeIdle

\* Lines 26-65: header, sidebar and health check.
HealthCheck ==
    /\ pc = "start"
    /\ banner' = HealthBanner(backend.probe)
    /\ pc' = "recent_files"
    /\ UNCHANGED <<backend, uncaught, session_state, offered,
                   classifyVars, transportVars, normalizeVars>>

\* Lines 71-73: files = api_client.list_files() or []. The attribute lookup
\* comes first; Streamlit ends the script run on the uncaught exception.
ListRecentFiles ==
    /\ pc = "recent_files"
    /\ IF HasMethod("list_files")
       THEN /\ pc' = "upload_section"
            /\ offered' = buttons(backend.files, session_state)
            /\ UNCHANGED uncaught
       ELSE /\ pc' = "aborted"
            /\ uncaught' = "AttributeError"
            /\ UNCHANGED offered
    /\ UNCHANGED <<backend, banner, session_state,
                   classifyVars, transportVars, normalizeVars>>

\* The user reloads the page: a new script run, against whatever the backend
\* holds by then.
Reload ==
    /\ pc \in {"aborted", "upload_section"}
    /\ backend' \in Backends
    /\ pc' = "start"
    /\ banner' = "none"
    /\ uncaught' = "none"
    /\ offered' = {}
    /\ UNCHANGED <<session_state, classifyVars, transportVars, normalizeVars>>

NextRender == HealthCheck \/ ListRecentFiles \/ Reload

SpecRender == InitRender /\ [][NextRender]_vars

---------------------------------------------------------------------------
(* Classification of a stored result: main renders it once.                *)

InitClassify ==
    /\ result \in Responses
    /\ view = NoView
    /\ TransportIdle
    /\ RenderIdle
    /\ NormalizeIdle

Display ==
    /\ view = NoView
    /\ view' = main_display(result)
    /\ UNCHANGED <<result, transportVars, renderVars, normalizeVars>>

NextClassify == Display

SpecClassify == InitClassify /\ [][NextClassify]_vars

---------------------------------------------------------------------------
(* The normalizer: display_results renders one document.                   *)

InitNormalize ==
    /\ document \in Documents
    /\ entity_groups = <<>>
    /\ entity_lines = <<>>
    /\ tables_shown = <<>>
    /\ pc = "display_results"
    /\ backend = [probe |-> 200, files |-> <<>>]
    /\ banner = "none"
    /\ uncaught = "none"
    /\ session_state = NoLastResult
    /\ offered = {}
    /\ ClassifyIdle
    /\ TransportIdle

\* Lines 27-89: the entity groups (when there are entities) and one
\* expander per table.
DisplayResults ==
    /\ pc = "display_results"
    /\ entity_groups' = group_entities(document.entities, Len(document.entities))
    /\ entity_lines' = show_entities(entity_groups')
    /\ tables_shown' = [i \in 1..Len(document.tables) |-> show_table(document.tables[i], i)]
    /\ pc' = "displayed"
    /\ UNCHANGED <<document, backend, banner, uncaught, session_state, offered,
                   classifyVars, transportVars>>

NextNormalize == DisplayResults

SpecNormalize == InitNormalize /\ [][NextNormalize]_vars

---------------------------------------------------------------------------
(* Claims about the classification (specification SpecClassify).          *)

\* The stored result is a JSON object that main has rendered.
Rendered == view # NoView /\ result.json = "object"

CategoryIs(c) == result.category.has /\ result.category.name = c

MessageIsText == result.message.has /\ result.message.t = "str"

\* C1 as stated: every response whose category is "processing" is shown as
\* pending, whatever its other fields (error marker included) hold.
C1_ProcessingAlwaysPending ==
    (Rendered /\ CategoryIs("processing")) => view.shown = "pending"

\* C1 amended: a "processing" response is shown as pending exactly when its
\* error marker is missing or falsy, whatever message and confidenceScore
\* hold; with a truthy marker display_error is shown instead.
C1_ProcessingPendingUnlessMarked ==
    (Rendered /\ CategoryIs("processing")) =>
        IF result.error \in {"true", "string"}
        THEN view.shown = "error"
        ELSE view = [shown |-> "pending", tips |-> "none", raised |-> "none"]

C1_Witness ==
    /\ Rendered /\ CategoryIs("processing")
    /\ result.error = "false" /\ result.message.has
    /\ result.confidenceScore = Score(0)
    /\ view.shown = "pending"

\* C2 as stated: a true error marker and a message containing "timeout"
\* select the Timeout tips, whatever else the message contains.
C2_TimeoutAlwaysTimeoutTips ==
    (Rendered /\ result.error = "true" /\ MessageIsText
        /\ Contains(S_timeout, result.message.s))
    => view.tips = "Timeout"

\* C2 amended: a true error marker and a message containing "timeout" and
\* none of "API configuration", "categorize", "extract" select the Timeout
\* tips; a message that also contains one of those three does not.
C2_TimeoutUnlessEarlierPattern ==
    (Rendered /\ result.error = "true" /\ MessageIsText
        /\ Contains(S_timeout, result.message.s))
    => LET earlier ==
               \E p \in {S_API_configuration, S_categorize, S_extract} :
                   Contains(p, result.message.s)
       IN  /\ view.shown = "error" /\ view.raised = "none"
           /\ (view.tips = "Timeout") <=> ~earlier

C2_Witness ==
    /\ Rendered /\ result.error = "true" /\ MessageIsText
    /\ Contains(S_timeout, result.message.s)
    /\ Contains(S_busy, result.message.s)
    /\ view.tips = "Timeout"

\* C3: no error marker, category "other" and confidenceScore 0.0: main
\* calls display_error, not display_results, and the AI-processing tips show.
C3_FailedCategorizationIsAiProcessing ==
    (Rendered /\ result.error = "absent" /\ CategoryIs("other")
        /\ result.confidenceScore = Score(0))
    => view = [shown |-> "error", tips |-> "AiProcessing", raised |-> "none"]

C3_Witness ==
    /\ Rendered /\ result.error = "absent" /\ CategoryIs("other")
    /\ result.confidenceScore = Score(0)
    /\ view.shown = "error"

\* C7: for every value main can be handed, the branch chain together with
\* display_error completes without raising and shows exactly one of
\* results, pending or error tips.
C7_ClassifierNeverRaises ==
    (view # NoView) =>
        /\ view.raised = "none"
        /\ view.shown \in {"results", "pending", "error"}

\* The known-failure table of the specification, read row by row: the
\* first row with a pattern occurring in the text gives the kind.
PatternTable ==
    << [kind |-> "ApiConfiguration", patterns |-> {S_API_configuration}],
       [kind |-> "AiProcessing",     patterns |-> {S_categorize, S_extract}],
       [kind |-> "Timeout",          patterns |-> {S_timeout}],
       [kind |-> "ServiceBusy",      patterns |-> {S_busy, S_wait}] >>

TableKind(text) ==
    LET rows == {i \in 1..Len(PatternTable) :
                    \E p \in PatternTable[i].patterns : Contains(p, text)}
    IN  IF rows = {} THEN "Generic"
        ELSE PatternTable[CHOOSE i \in rows : \A j \in rows : i <= j].kind

\* C8: with a true error marker and a text message, the tips display_error
\* shows are those of the table's first matching row, Generic when no row
\* matches.
C8_TipsFollowPatternTable ==
    (Rendered /\ result.error = "true" /\ MessageIsText)
    => /\ view.shown = "error" /\ view.raised = "none"
       /\ view.tips = TableKind(result.message.s)

C8_Witness ==
    /\ Rendered /\ result.error = "true" /\ MessageIsText
    /\ Contains(S_wait, result.message.s)
    /\ Contains(S_extract, result.message.s)
    /\ view.tips = "AiProcessing"

---------------------------------------------------------------------------
(* Claims about the transport client (specification SpecTransport).        *)

\* The exchange did not succeed: the transport raised, or the final status
\* is not 2xx.
TransportFailed(outcome) ==
    outcome.raises \/ ~(200 <= outcome.status.code /\ outcome.status.code <= 299)

\* {error: true, message: "Upload failed: " + a cause, fileId: null}.
IsUploadErrorValue(v) ==
    /\ v.json = "object" /\ v.error = "true" /\ v.fileId = Null
    /\ v.message.has /\ v.message.t = "str"
    /\ SubSeq(v.message.s, 1, Len(S_Upload_failed)) = S_Upload_failed
    /\ Len(v.message.s) > Len(S_Upload_failed)

\* C4: upload_file never raises; on every failure of the POST (connection
\* refused, timeout, non-2xx status, malformed body) it returns
\* {error: true, message: <text containing the cause>, fileId: null}, and
\* the backend's JSON body only when the request succeeded.
C4_UploadFailureBecomesErrorValue ==
    (exchange.op = "upload_file") =>
        /\ returned.how # "raised"
        /\ IF TransportFailed(exchange.outcome) \/ ~exchange.outcome.body.valid
           THEN /\ IsUploadErrorValue(returned.value)
                /\ exchange.outcome.raises =>
                       Contains(exchange.outcome.text, returned.value.message.s)
           ELSE returned.value = exchange.outcome.body.value

\* C5: get_file_result and download_file never raise and return None on
\* every failure of their GET (non-2xx status, connection error, timeout,
\* unparsable body); a value other than None is returned only when the
\* request succeeded.
C5_GetFailureBecomesNone ==
    (exchange.op \in {"get_file_result", "download_file"}) =>
        /\ returned.how # "raised"
        /\ TransportFailed(exchange.outcome) => returned.how = "None"
        /\ (exchange.op = "get_file_result" /\ ~exchange.outcome.raises
                /\ ~exchange.outcome.body.valid) => returned.how = "None"

---------------------------------------------------------------------------
(* Claim about the page render (specification SpecRender).                 *)

\* C6: the client offers list_files, and the page render that calls it
\* always continues to the upload and results sections: no script run ends
\* at the "Recent Files" sidebar.
C6_RenderContinuesPastRecentFiles ==
    (pc \notin {"start", "recent_files"}) =>
        /\ pc = "upload_section"
        /\ uncaught = "none"

---------------------------------------------------------------------------
(* Claims about the normalizer (specification SpecNormalize).              *)

\* The type an entity is grouped under: its type, "unknown" without one.
TypeOf(e) == IF e.type.has THEN e.type.name ELSE "unknown"

\* The entities of type k, in input order.
OfType(entities, k) ==
    LET Is(e) == TypeOf(e) = k IN SelectSeq(entities, Is)

\* The position of the first entity of type k.
FirstOf(entities, k) ==
    CHOOSE i \in 1..Len(entities) :
        /\ TypeOf(entities[i]) = k
        /\ \A j \in 1..(i - 1) : TypeOf(entities[j]) # k

\* C9: the groups partition the entities in order: one group per type that
\* occurs, holding exactly the entities of that type in input order (so
\* every entity is in one group, once), the groups ordered by the first
\* occurrence of their type.
C9_GroupingIsOrderPreservingPartition ==
    (pc = "displayed") =>
        LET es == document.entities
            gs == entity_groups
        IN  /\ \A i, j \in 1..Len(gs) : gs[i].key = gs[j].key => i = j
            /\ \A n \in 1..Len(es) : \E i \in 1..Len(gs) : gs[i].key = TypeOf(es[n])
            /\ \A i \in 1..Len(gs) :
                   /\ gs[i].items # <<>>
                   /\ gs[i].items = OfType(es, gs[i].key)
            /\ \A i, j \in 1..Len(gs) :
                   i < j => FirstOf(es, gs[i].key) < FirstOf(es, gs[j].key)

\* Three entities, two of one type around one of another, the first without
\* a type field.
C9_Witness ==
    /\ pc = "displayed"
    /\ Len(document.entities) = 3
    /\ ~document.entities[1].type.has
    /\ TypeOf(document.entities[2]) = "amount"
    /\ TypeOf(document.entities[3]) = "unknown"
    /\ document.entities[1].value # document.entities[3].value
    /\ Len(entity_groups) = 2
    /\ Len(entity_groups[1].items) = 2

\* Every row is as long as the headers, and there are headers.
WellFormed(table) ==
    /\ table.headers # <<>>
    /\ \A i \in 1..Len(table.rows) : Len(table.rows[i]) = Len(table.headers)

\* C10: a table is rendered as a DataFrame only if its headers are
\* non-empty and every row is as long as the headers; any other table, such
\* as headers [A,B] with rows [[1,2],[3]], is never tabulated: its raw
\* structure is shown unchanged.
C10_MalformedTableShownRaw ==
    (pc = "displayed") =>
        \A i \in 1..Len(document.tables) :
            ~WellFormed(document.tables[i]) =>
                /\ tables_shown[i].shown # "dataframe"
                /\ tables_shown[i].json = <<document.tables[i]>>

\* The severity tier the claim gives an entity: by its confidence alone.
Tier(e) ==
    IF ~e.confidence.has THEN "low"
    ELSE IF e.confidence.v > 80 THEN "high"
    ELSE IF e.confidence.v > 50 /\ e.confidence.v <= 80 THEN "medium"
    ELSE "low"

\* The marker each tier is shown with.
TierColor(tier) ==
    CASE tier = "high" -> "green"
      [] tier = "medium" -> "yellow"
      [] tier = "low" -> "red"

\* C11: every entity of every group is shown on one line, whose marker is
\* the tier of its confidence alone: high above 0.8, medium above 0.5 and
\* up to 0.8, low otherwise, and low without a confidence field.
C11_TierFollowsConfidenceAlone ==
    (pc = "displayed") =>
        /\ Len(entity_lines) = Len(entity_groups)
        /\ \A i \in 1..Len(entity_groups) :
               /\ Len(entity_lines[i]) = Len(entity_groups[i].items)
               /\ \A j \in 1..Len(entity_groups[i].items) :
                      entity_lines[i][j].color = TierColor(Tier(entity_groups[i].items[j]))

\* Three entities of one type: confidence 0.8 shown medium, 0.5 shown low,
\* no confidence field shown low.
C11_Witness ==
    /\ pc = "displayed"
    /\ Len(document.entities) = 3
    /\ document.entities[1].confidence = Score(80)
    /\ document.entities[2].confidence = Score(50)
    /\ document.entities[3].confidence = NoScore
    /\ Len(entity_lines) = 1
    /\ entity_lines[1][1].color = "yellow"
    /\ entity_lines[1][2].color = "red"
    /\ entity_lines[1][3].color = "red"

---------------------------------------------------------------------------
(* Claim about the session (specification SpecRender).                     *)

\* The script run has ended, by reaching the end of main or by an uncaught
\* exception.
RunEnded == pc \notin {"start", "recent_files"}

====
